---- MODULE Spec2Model ----
(***************************************************************************)
(* Model of the benchmark engine of BigBFT (benchmark.go): the orchestrator *)
(* (Load and Run), the key generator next(), the worker goroutines, the     *)
(* collector goroutine, the key queue, the latency queue, the unbuffered    *)
(* sequence-number channel and the WaitGroup.                               *)
(*                                                                         *)
(* Probabilities are percentages: a write ratio W of 1.0 is 100, and a draw *)
(* rand.Float64() in [0,1) is one of the representatives in FloatDraws.     *)
(* Variables whose comment says "history" record what happened (which keys  *)
(* were submitted, which Write calls were made); the program does not read  *)
(* them.                                                                    *)
(***************************************************************************)
EXTENDS Integers, Sequences, FiniteSets, TLC

\* ---------------------------------------------------------------- bounds
MaxK == 2
MaxMin == 1
MaxN == 3
MaxConcurrency == 2
MaxOps == 2
MaxDraw == 5

\* ------------------------------------------------------ program constants
\* make(chan time.Duration, 1000)
LatenciesCap == 1000
\* DefaultBConfig: Conflicts
DefaultConflicts == 100

VARIABLES
    cfg,          \* b.Bconfig: T, N, K, W, Throttle, Concurrency, Distribution, Conflicts, Min,
                  \* Mu, Move
    plan,         \* the caller: "Load", "Run", or "LoadRun" (Load, then Run on the same object)
    phase,        \* "none", "Load" or "Run": the method the caller is in (or was last in)
    pc,           \* the orchestrator's position
    i,            \* the loop variable i of Load / of the count-based loop of Run
    key,          \* the key returned by next(), about to be sent
    counter,      \* b.counter
    globalCouner, \* b.globalCouner
    wait,         \* b.wait, the WaitGroup counter
    latency,      \* b.latency
    keys,         \* the channel keys (buffered, capacity Concurrency)
    keysClosed,   \* close(keys) has run
    gcClosed,     \* close(globalCouner) has run
    gcBuf,        \* the buffer of the channel globalCouner (capacity GcCap)
    latencies,    \* the channel latencies (buffered, capacity 1000)
    latenciesClosed, \* the deferred close(latencies) has run
    timerFired,   \* timer.C holds a value
    initErr,      \* what db.Init() of the DB under test returns (TRUE: an error)
    configured,   \* history: the Bconfig given to NewBenchmark
    wpc,          \* each worker's position
    wk,           \* each worker's k (with the submission it came from)
    werr,         \* each worker's variable err (TRUE: not nil)
    cpc,          \* the collector's position
    dbInit,       \* history: number of db.Init() calls in this phase
    dbStop,       \* history: number of db.Stop() calls in this phase
    rateWaits,    \* history: number of b.rate.Wait() calls in this phase
    submitted,    \* history: the keys sent on the key queue, in order
    seqs,         \* history: the values b.globalCouner++ produced, in order
    writes,       \* history: the db.Write calls, in call order
    nOk,          \* history: Write calls that returned nil
    nFailed,      \* history: Write calls that returned an error
    nReads,       \* history: keys processed as read no-ops
    nLogged,      \* history: log.Error(err) calls
    statLen       \* history: len(b.latency) when Statistic(b.latency) ran, -1 before

vars == << cfg, plan, initErr, configured, phase, pc, i, key, counter, globalCouner, wait, latency,
           keys, keysClosed, gcClosed, gcBuf, latencies, latenciesClosed, timerFired,
           wpc, wk, werr, cpc, dbInit, dbStop, rateWaits, submitted, seqs, writes,
           nOk, nFailed, nReads, nLogged, statLen >>

orchVars == << pc, i, key, counter, globalCouner >>
chanVars == << keys, keysClosed, gcClosed, gcBuf, latencies, latenciesClosed >>
workerVars == << wpc, wk, werr >>
histVars == << dbInit, dbStop, rateWaits, submitted, seqs, writes, nOk, nFailed, nReads, nLogged, statLen >>

Workers == 1..MaxConcurrency

\* (a variant of GcCap: the sequence-number channel made like the key queue,
\* make(chan int, b.Concurrency))
GcCapLikeKeys == cfg.Concurrency

\* make(chan int, 0): the capacity of the channel globalCouner
GcCap == 0

\* ------------------------------------------------------------ random draws
\* rand.Float64(), times 100: representatives of [0, 1)
FloatDraws == {0, 50, 99}
\* rand.Intn(100): representatives of 0..99
PercentDraws == {0, 49, 50, 99}
\* rand.Intn(n)
Intn(n) == 0..(n - 1)
\* int(rand.NormFloat64()*b.Sigma): any integer, here within the bound; b.Mu is added
\* to it in NormalNext
NormalDraws == (0 - MaxDraw)..MaxDraw
\* int(b.zipf.Uint64()): rand.NewZipf(r, s, v, imax) yields values in 0..imax
ZipfDraws(K) == 0..K
\* int(rand.ExpFloat64() / b.Lambda): any integer >= 0, here within the bound
ExpDraws == 0..MaxDraw

\* ------------------------------------------------------------- next()
RECURSIVE FoldUp(_, _)
FoldUp(k, K) == IF k < 0 THEN FoldUp(k + K, K) ELSE k

\* (a variant of FoldDown: K is subtracted once)
FoldDownOnce(k, K) == IF k > K THEN k - K ELSE k

RECURSIVE FoldDown(_, _)
FoldDown(k, K) == IF k > K THEN FoldDown(k - K, K) ELSE k

Outcome(k, c) == [key |-> k, counter |-> c, fatal |-> FALSE]

\* (a variant of OrderNext: the counter does not wrap)
OrderNextNoWrap(c, ctr) ==
    LET n == ctr + 1 IN { Outcome(n + c.Min, n) }

OrderNext(c, ctr) ==
    LET n == (ctr + 1) % c.K IN { Outcome(n + c.Min, n) }

\* (a variant of UniformNext: the draw includes K)
UniformNextInclusive(c, ctr) ==
    { Outcome(r + c.Min, ctr) : r \in Intn(c.K + 1) }

UniformNext(c, ctr) ==
    { Outcome(r + c.Min, ctr) : r \in Intn(c.K) }

\* (a variant of ConflictNext: the comparison inverted)
ConflictNextInverted(c, ctr) ==
    LET n == (ctr + 1) % c.K IN
    { IF r >= c.Conflicts THEN Outcome(0, ctr) ELSE Outcome(n + c.Min, n) : r \in PercentDraws }

ConflictNext(c, ctr) ==
    LET n == (ctr + 1) % c.K IN
    { IF r < c.Conflicts THEN Outcome(0, ctr) ELSE Outcome(n + c.Min, n) : r \in PercentDraws }

NormalNext(c, ctr) ==
    { Outcome(FoldDown(FoldUp(d + c.Mu, c.K), c.K), ctr) : d \in NormalDraws }

\* The set of results of one call of next() with configuration c and b.counter = ctr.
NextOutcomes(c, ctr) ==
    CASE c.Distribution = "order" -> OrderNext(c, ctr)
      [] c.Distribution = "uniform" -> UniformNext(c, ctr)
      [] c.Distribution = "conflict" -> ConflictNext(c, ctr)
      [] c.Distribution = "normal" -> NormalNext(c, ctr)
      [] c.Distribution = "zipfan" -> { Outcome(d, ctr) : d \in ZipfDraws(c.K) }
      [] c.Distribution = "exponential" -> { Outcome(d, ctr) : d \in ExpDraws }
      [] OTHER -> { [key |-> 0, counter |-> ctr, fatal |-> TRUE] }

\* ------------------------------------------------------- configurations
Config(T, N, K, W, Th, C, D, Cf, Min) ==
    [T |-> T, N |-> N, K |-> K, W |-> W, Throttle |-> Th, Concurrency |-> C,
     Distribution |-> D, Conflicts |-> Cf, Min |-> Min, Mu |-> 0, Move |-> FALSE]

\* The DB's Init succeeds unless the scenario says otherwise.
Scenario(p, c) == [plan |-> p, cfg |-> c, initErr |-> FALSE]

\* T > 0: the timer governs and N is not read; T = 0: N governs.
Cutoffs == { <<1, 0>> } \cup { <<0, n>> : n \in 0..MaxN }

\* Run with one worker, keys in order: every cutoff, key space, offset and write ratio.
SequentialRuns ==
    { Scenario("Run", Config(tn[1], tn[2], K, W, 0, 1, "order", DefaultConflicts, Min)) :
        tn \in Cutoffs, K \in 1..MaxK, W \in {0, 50, 100}, Min \in 0..MaxMin }

\* Run with several workers.
ConcurrentRuns ==
    { Scenario("Run", Config(tn[1], tn[2], MaxK, W, 0, C, "order", DefaultConflicts, 0)) :
        tn \in { <<1, 0>>, <<0, MaxOps>> }, W \in {50, 100}, C \in 2..MaxConcurrency }

\* Run with each distribution name next() knows, and two it does not know.
\* Conflicts is read by the conflict distribution alone.
DistConflicts ==
    { <<d, DefaultConflicts>> :
        d \in {"uniform", "normal", "zipfan", "zipfian", "exponential", "random"} }
    \cup { <<"conflict", p>> : p \in {0, 50, 100} }

GeneratorRuns ==
    { Scenario("Run", Config(0, MaxOps, K, 100, Th, 1, dc[1], dc[2], Min)) :
        K \in 1..MaxK, Th \in {0, 10}, dc \in DistConflicts, Min \in 0..MaxMin }

\* Load, with the write ratio and throttle it forces and with others configured.
Loads ==
    { Scenario("Load", Config(0, 0, K, wt[1], wt[2], C, "order", DefaultConflicts, Min)) :
        K \in 1..MaxK, wt \in { <<100, 0>>, <<0, 10>> }, C \in 1..MaxConcurrency,
        Min \in 0..MaxMin }

\* Load, then Run on the same Benchmark.
LoadRuns ==
    { Scenario("LoadRun", Config(0, MaxOps, MaxK, W, Th, 1, "order", DefaultConflicts, 0)) :
        W \in {0, 50, 100}, Th \in {0, 10} }

\* K = 10, Min = 0, Distribution = order, Concurrency = 1, W = 1.0, N = 10
TenKeys == { Scenario("Run", Config(0, 10, 10, 100, 0, 1, "order", DefaultConflicts, 0)) }

\* Run under the normal distribution with the moving mean: Move = true, Mu as configured.
MovingMeanRuns ==
    { Scenario("Run", [Config(0, MaxOps, K, 100, 0, 1, "normal", DefaultConflicts, 0)
                          EXCEPT !.Mu = mu, !.Move = TRUE]) :
        K \in 1..MaxK, mu \in 0..1 }

\* A DB whose Init returns an error: Load, and Run under every cutoff.
FailingInits ==
    { [sc EXCEPT !.initErr = TRUE] :
        sc \in { r \in SequentialRuns \cup Loads :
                    /\ r.cfg.K = 1 /\ r.cfg.Min = 0 /\ r.cfg.W = 100
                    /\ r.cfg.Throttle = 0 /\ r.cfg.Concurrency = 1 } }

Scenarios ==
    SequentialRuns \cup ConcurrentRuns \cup GeneratorRuns \cup Loads \cup LoadRuns \cup TenKeys
    \cup MovingMeanRuns \cup FailingInits

\* ---------------------------------------------------------------- Init
\* NewBenchmark
Init ==
    /\ \E sc \in Scenarios :
          /\ plan = sc.plan
          /\ cfg = sc.cfg
          /\ configured = sc.cfg
          /\ initErr = sc.initErr
    /\ phase = "none"
    /\ pc = "new"
    /\ i = 0
    /\ key = 0
    /\ counter = -1
    /\ globalCouner = -1
    /\ wait = 0
    /\ latency = << >>
    /\ keys = << >>
    /\ keysClosed = FALSE
    /\ gcClosed = FALSE
    /\ gcBuf = << >>
    /\ latencies = << >>
    /\ latenciesClosed = FALSE
    /\ timerFired = FALSE
    /\ wpc = [w \in Workers |-> "off"]
    /\ wk = [w \in Workers |-> [key |-> 0, idx |-> 0]]
    /\ werr = [w \in Workers |-> FALSE]
    /\ cpc = "off"
    /\ dbInit = 0
    /\ dbStop = 0
    /\ rateWaits = 0
    /\ submitted = << >>
    /\ seqs = << >>
    /\ writes = << >>
    /\ nOk = 0
    /\ nFailed = 0
    /\ nReads = 0
    /\ nLogged = 0
    /\ statLen = -1

\* log.Fatalf or a panic ended the process: no goroutine takes a step.
Alive == pc \notin {"fatal", "panic"}

\* make the channels, go b.collect, go b.worker x Concurrency
StartGoroutines(c) ==
    /\ keys' = << >>
    /\ keysClosed' = FALSE
    /\ gcClosed' = FALSE
    /\ gcBuf' = << >>
    /\ latencies' = << >>
    /\ latenciesClosed' = FALSE
    /\ cpc' = "range"
    /\ wpc' = [w \in Workers |-> IF w <= c.Concurrency THEN "range" ELSE "off"]
    /\ wk' = [w \in Workers |-> [key |-> 0, idx |-> 0]]
    /\ werr' = [w \in Workers |-> FALSE]

ResetHistory ==
    /\ submitted' = << >>
    /\ seqs' = << >>
    /\ writes' = << >>
    /\ nOk' = 0
    /\ nFailed' = 0
    /\ nReads' = 0
    /\ nLogged' = 0
    /\ statLen' = -1
    /\ dbStop' = 0
    /\ rateWaits' = 0

\* globalCouner <- v by the orchestrator: v goes into the channel's buffer when it has
\* room (it never has: the capacity is 0); otherwise the orchestrator blocks at
\* `blocked` until a worker receives, and then goes on at `after` with i = nextI.
SeqSend(v, blocked, after, nextI) ==
    IF Len(gcBuf) < GcCap
      THEN /\ gcBuf' = Append(gcBuf, v)
           /\ pc' = after
           /\ i' = nextI
      ELSE /\ pc' = blocked
           /\ UNCHANGED << gcBuf, i >>

\* ------------------------------------------------------------ Load
\* (a variant of LoadStart: b.W = 1.0 and b.Throttle = 0 left out)
LoadStartKeepsW ==
    /\ pc = "new"
    /\ plan \in {"Load", "LoadRun"}
    /\ phase' = "Load"
    /\ cfg' = cfg
    /\ dbInit' = 1
    /\ StartGoroutines(cfg')
    /\ ResetHistory
    /\ i' = cfg.Min
    /\ pc' = "loadLoop"
    /\ UNCHANGED << plan, initErr, configured, key, counter, globalCouner, wait, latency, timerFired >>

\* Load, lines 103-118: force W and Throttle, db.Init(), channels, goroutines.
LoadStart ==
    /\ pc = "new"
    /\ plan \in {"Load", "LoadRun"}
    /\ phase' = "Load"
    /\ cfg' = [cfg EXCEPT !.W = 100, !.Throttle = 0]
    /\ dbInit' = 1
    /\ StartGoroutines(cfg')
    /\ ResetHistory
    /\ i' = cfg.Min
    /\ pc' = "loadLoop"
    /\ UNCHANGED << plan, initErr, configured, key, counter, globalCouner, wait, latency, timerFired >>

\* for i := b.Min; i < b.Min+b.K; i++ { b.wait.Add(1) ...
LoadLoop ==
    /\ pc = "loadLoop"
    /\ IF i < cfg.Min + cfg.K
         THEN /\ wait' = wait + 1
              /\ pc' = "loadSend"
         ELSE /\ pc' = "loadStop"
              /\ UNCHANGED wait
    /\ UNCHANGED << cfg, plan, initErr, configured, phase, i, key, counter, globalCouner, latency,
                    timerFired, chanVars, workerVars, cpc, histVars >>

\* keys <- i  (blocks while the queue holds Concurrency keys);
\* globalCouner <- b.globalCouner begins (b.globalCouner++ is commented out)
LoadSend ==
    /\ pc = "loadSend"
    /\ Len(keys) < cfg.Concurrency
    /\ keys' = Append(keys, [key |-> i, idx |-> Len(submitted) + 1])
    /\ submitted' = Append(submitted, i)
    /\ SeqSend(globalCouner, "loadHandoff", "loadLoop", i + 1)
    /\ UNCHANGED << cfg, plan, initErr, configured, phase, key, counter, globalCouner, wait, latency,
                    timerFired, keysClosed, gcClosed, latencies, latenciesClosed,
                    workerVars, cpc, dbInit, dbStop, rateWaits, seqs, writes, nOk, nFailed,
                    nReads, nLogged, statLen >>

\* b.db.Stop(); close(keys)
LoadStop ==
    /\ pc = "loadStop"
    /\ dbStop' = dbStop + 1
    /\ keysClosed' = TRUE
    /\ pc' = "loadWait"
    /\ UNCHANGED << cfg, plan, initErr, configured, phase, i, key, counter, globalCouner, wait, latency,
                    timerFired, keys, gcClosed, gcBuf, latencies, latenciesClosed,
                    workerVars, cpc, dbInit, rateWaits, submitted, seqs, writes, nOk, nFailed,
                    nReads, nLogged, statLen >>

\* b.wait.Wait()
LoadWait ==
    /\ pc = "loadWait"
    /\ wait = 0
    /\ pc' = "stat"
    /\ UNCHANGED << cfg, plan, initErr, configured, phase, i, key, counter, globalCouner, wait, latency,
                    timerFired, chanVars, workerVars, cpc, histVars >>

\* ------------------------------------------------------------- Run
\* Run, lines 146-163: reset b.latency, channels, goroutines, db.Init().
\* Run is called on a new Benchmark, or after Load has returned.
RunStart ==
    /\ \/ pc = "new" /\ plan = "Run"
       \/ pc = "done" /\ phase = "Load" /\ plan = "LoadRun"
    /\ phase' = "Run"
    /\ latency' = << >>
    /\ dbInit' = 1
    /\ StartGoroutines(cfg)
    /\ ResetHistory
    /\ i' = 0
    /\ pc' = "loop"
    /\ UNCHANGED << cfg, plan, initErr, configured, key, counter, globalCouner, wait, timerFired >>

\* The head of the loop. T > 0: select { case <-timer.C: break loop; default: ... }
\* (the timer can fire between the select and b.wait.Add(1): RunAdd is the Add).
\* T = 0: for i := 0; i < b.N; i++ { Add(1) ..., and b.wait.Wait() after the loop.
RunLoop ==
    /\ pc = "loop"
    /\ IF cfg.T > 0
         THEN IF timerFired
                THEN /\ pc' = "stop"
                     /\ UNCHANGED wait
                ELSE /\ Len(submitted) < MaxOps
                     /\ pc' = "add"
                     /\ UNCHANGED wait
         ELSE IF i < cfg.N
                THEN /\ wait' = wait + 1
                     /\ pc' = "next"
                ELSE /\ pc' = "wait"
                     /\ UNCHANGED wait
    /\ UNCHANGED << cfg, plan, initErr, configured, phase, i, key, counter, globalCouner, latency,
                    timerFired, chanVars, workerVars, cpc, histVars >>

\* b.wait.Add(1) of the default case of the select
RunAdd ==
    /\ pc = "add"
    /\ wait' = wait + 1
    /\ pc' = "next"
    /\ UNCHANGED << cfg, plan, initErr, configured, phase, i, key, counter, globalCouner, latency,
                    timerFired, chanVars, workerVars, cpc, histVars >>

\* b.next(): the key, then b.rate.Wait() if b.Throttle > 0
RunNext ==
    /\ pc = "next"
    /\ \E o \in NextOutcomes(cfg, counter) :
          IF o.fatal
            THEN /\ pc' = "fatal"
                 /\ UNCHANGED << key, counter >>
            ELSE /\ key' = o.key
                 /\ counter' = o.counter
                 /\ pc' = "send"
    /\ rateWaits' = IF pc' = "send" /\ cfg.Throttle > 0 THEN rateWaits + 1 ELSE rateWaits
    /\ UNCHANGED << cfg, plan, initErr, configured, phase, i, globalCouner, wait, latency,
                    timerFired, chanVars, workerVars, cpc, dbInit, dbStop, submitted,
                    seqs, writes, nOk, nFailed, nReads, nLogged, statLen >>

\* (a variant of RunSend: b.globalCouner++ left out, as it is in Load)
RunSendNoIncrement ==
    /\ pc = "send"
    /\ Len(keys) < cfg.Concurrency
    /\ keys' = Append(keys, [key |-> key, idx |-> Len(submitted) + 1])
    /\ submitted' = Append(submitted, key)
    /\ globalCouner' = globalCouner
    /\ seqs' = Append(seqs, globalCouner')
    /\ SeqSend(globalCouner', "handoff", "loop", IF cfg.T = 0 THEN i + 1 ELSE i)
    /\ UNCHANGED << cfg, plan, initErr, configured, phase, key, counter, wait, latency,
                    timerFired, keysClosed, gcClosed, latencies, latenciesClosed,
                    workerVars, cpc, dbInit, dbStop, rateWaits, writes, nOk, nFailed,
                    nReads, nLogged, statLen >>

\* keys <- key  (blocks while the queue holds Concurrency keys); b.globalCouner++;
\* globalCouner <- b.globalCouner begins
RunSend ==
    /\ pc = "send"
    /\ Len(keys) < cfg.Concurrency
    /\ keys' = Append(keys, [key |-> key, idx |-> Len(submitted) + 1])
    /\ submitted' = Append(submitted, key)
    /\ globalCouner' = globalCouner + 1
    /\ seqs' = Append(seqs, globalCouner')
    /\ SeqSend(globalCouner', "handoff", "loop", IF cfg.T = 0 THEN i + 1 ELSE i)
    /\ UNCHANGED << cfg, plan, initErr, configured, phase, key, counter, wait, latency,
                    timerFired, keysClosed, gcClosed, latencies, latenciesClosed,
                    workerVars, cpc, dbInit, dbStop, rateWaits, writes, nOk, nFailed,
                    nReads, nLogged, statLen >>

\* b.wait.Wait() of the count-based branch
RunWait ==
    /\ pc = "wait"
    /\ wait = 0
    /\ pc' = "stop"
    /\ UNCHANGED << cfg, plan, initErr, configured, phase, i, key, counter, globalCouner, wait, latency,
                    timerFired, chanVars, workerVars, cpc, histVars >>

\* b.db.Stop(); close(keys); close(globalCouner)
RunStop ==
    /\ pc = "stop"
    /\ dbStop' = dbStop + 1
    /\ keysClosed' = TRUE
    /\ gcClosed' = TRUE
    /\ pc' = "stat"
    /\ UNCHANGED << cfg, plan, initErr, configured, phase, i, key, counter, globalCouner, wait, latency,
                    timerFired, keys, gcBuf, latencies, latenciesClosed,
                    workerVars, cpc, dbInit, rateWaits, submitted, seqs, writes, nOk, nFailed,
                    nReads, nLogged, statLen >>

\* time.NewTimer(T seconds) delivers on timer.C at some moment after the loop began.
TimerFire ==
    /\ Alive
    /\ phase = "Run"
    /\ cfg.T > 0
    /\ pc \in {"loop", "add", "next", "send", "handoff"}
    /\ ~timerFired
    /\ timerFired' = TRUE
    /\ UNCHANGED << cfg, plan, initErr, configured, phase, orchVars, wait, latency,
                    chanVars, workerVars, cpc, histVars >>

\* move, run by Schedule every Speed milliseconds until Run returns (close(stop)):
\* b.Mu = float64(int(b.Mu+1) % b.K)
Move ==
    /\ Alive
    /\ phase = "Run"
    /\ cfg.Move
    /\ pc # "done"
    /\ cfg' = [cfg EXCEPT !.Mu = (cfg.Mu + 1) % cfg.K]
    /\ UNCHANGED << plan, initErr, configured, phase, orchVars, wait, latency,
                    timerFired, chanVars, workerVars, cpc, histVars >>

\* ------------------------------------------------- end of Load and of Run
\* stat := Statistic(b.latency)
Stat ==
    /\ pc = "stat"
    /\ statLen' = Len(latency)
    /\ pc' = "ret"
    /\ UNCHANGED << cfg, plan, initErr, configured, phase, i, key, counter, globalCouner, wait, latency,
                    timerFired, chanVars, workerVars, cpc, dbInit, dbStop, rateWaits, submitted,
                    seqs, writes, nOk, nFailed, nReads, nLogged >>

\* return: the deferred close(latencies) runs
Return ==
    /\ pc = "ret"
    /\ latenciesClosed' = TRUE
    /\ pc' = "done"
    /\ UNCHANGED << cfg, plan, initErr, configured, phase, i, key, counter, globalCouner, wait, latency,
                    timerFired, keys, keysClosed, gcClosed, gcBuf, latencies,
                    workerVars, cpc, histVars >>

\* ------------------------------------------------------------ worker
\* for k := range keys { if rand.Float64() < b.W { v = GenerateRandVal(...) ... } else { s, e = now }
WTake(w) ==
    /\ Alive
    /\ wpc[w] = "range"
    /\ keys # << >>
    /\ wk' = [wk EXCEPT ![w] = Head(keys)]
    /\ keys' = Tail(keys)
    /\ \E r \in FloatDraws :
          IF r < cfg.W
            THEN /\ wpc' = [wpc EXCEPT ![w] = "recvSeq"]
                 /\ UNCHANGED nReads
            ELSE /\ wpc' = [wpc EXCEPT ![w] = "result"]
                 /\ nReads' = nReads + 1
    /\ UNCHANGED << cfg, plan, initErr, configured, phase, orchVars, wait, latency, timerFired,
                    keysClosed, gcClosed, gcBuf, latencies, latenciesClosed, werr, cpc,
                    dbInit, dbStop, rateWaits, submitted, seqs, writes, nOk, nFailed, nLogged,
                    statLen >>

\* range keys ends: the queue is closed and empty
WExit(w) ==
    /\ Alive
    /\ wpc[w] = "range"
    /\ keys = << >>
    /\ keysClosed
    /\ wpc' = [wpc EXCEPT ![w] = "exit"]
    /\ UNCHANGED << cfg, plan, initErr, configured, phase, orchVars, wait, latency, timerFired,
                    chanVars, wk, werr, cpc, histVars >>

\* The orchestrator's position after globalCouner <- b.globalCouner was received.
AfterHandoff ==
    /\ pc' = IF pc = "loadHandoff" THEN "loadLoop" ELSE "loop"
    /\ i' = IF pc = "loadHandoff" \/ cfg.T = 0 THEN i + 1 ELSE i

\* <-globalCouner, the argument of b.db.Write(k, v, <-globalCouner): the head of the
\* channel's buffer (a blocked sender's value then moves into the buffer), or a
\* rendezvous with the orchestrator blocked in its send, or the zero value once the
\* channel is closed. The Write call begins.
WRecv(w) ==
    LET fromBuf == gcBuf # << >>
        sender == pc \in {"handoff", "loadHandoff"}
        v == IF fromBuf THEN Head(gcBuf) ELSE IF sender THEN globalCouner ELSE 0
    IN
    /\ Alive
    /\ wpc[w] = "recvSeq"
    /\ fromBuf \/ sender \/ gcClosed
    /\ writes' = Append(writes, [key |-> wk[w].key, seq |-> v, idx |-> wk[w].idx])
    /\ gcBuf' = IF fromBuf
                  THEN IF sender THEN Append(Tail(gcBuf), globalCouner) ELSE Tail(gcBuf)
                  ELSE gcBuf
    /\ IF sender THEN AfterHandoff ELSE UNCHANGED << pc, i >>
    /\ wpc' = [wpc EXCEPT ![w] = "inWrite"]
    /\ UNCHANGED << cfg, plan, initErr, configured, phase, key, counter, globalCouner, wait, latency,
                    timerFired, keys, keysClosed, gcClosed, latencies, latenciesClosed,
                    wk, werr, cpc, dbInit, dbStop, rateWaits, submitted,
                    seqs, nOk, nFailed, nReads, nLogged, statLen >>

\* What a Write call of the DB under test can return (TRUE: an error).
WriteErrors == {FALSE, TRUE}

\* err = b.db.Write(...) returns
WWriteReturn(w) ==
    /\ Alive
    /\ wpc[w] = "inWrite"
    /\ \E e \in WriteErrors :
          /\ werr' = [werr EXCEPT ![w] = e]
          /\ nOk' = IF e THEN nOk ELSE nOk + 1
          /\ nFailed' = IF e THEN nFailed + 1 ELSE nFailed
    /\ wpc' = [wpc EXCEPT ![w] = "result"]
    /\ UNCHANGED << cfg, plan, initErr, configured, phase, orchVars, wait, latency, timerFired,
                    chanVars, wk, cpc, dbInit, dbStop, rateWaits, submitted, seqs, writes,
                    nReads, nLogged, statLen >>

\* if err == nil { result <- e.Sub(s) }: blocks while the latency queue is full,
\* panics when it is closed.
WSend(w) ==
    /\ Alive
    /\ wpc[w] = "result"
    /\ ~werr[w]
    /\ IF latenciesClosed
         THEN /\ pc' = "panic"
              /\ UNCHANGED << latencies, wpc >>
         ELSE /\ Len(latencies) < LatenciesCap
              /\ latencies' = Append(latencies, wk[w].idx)
              /\ wpc' = [wpc EXCEPT ![w] = "range"]
              /\ UNCHANGED pc
    /\ UNCHANGED << cfg, plan, initErr, configured, phase, i, key, counter, globalCouner, wait, latency,
                    timerFired, keys, keysClosed, gcClosed, gcBuf, latenciesClosed, wk, werr,
                    cpc, histVars >>

\* (a variant of WLogError: the failed Write is called again)
WLogErrorRetries(w) ==
    /\ Alive
    /\ wpc[w] = "result"
    /\ werr[w]
    /\ nLogged' = nLogged + 1
    /\ writes' = Append(writes, [key |-> wk[w].key, seq |-> 0, idx |-> wk[w].idx])
    /\ wpc' = [wpc EXCEPT ![w] = "inWrite"]
    /\ UNCHANGED << cfg, plan, initErr, configured, phase, orchVars, wait, latency, timerFired,
                    chanVars, wk, werr, cpc, dbInit, dbStop, rateWaits, submitted, seqs,
                    nOk, nFailed, nReads, statLen >>

\* else { op.end = math.MaxInt64; log.Error(err) }
WLogError(w) ==
    /\ Alive
    /\ wpc[w] = "result"
    /\ werr[w]
    /\ nLogged' = nLogged + 1
    /\ wpc' = [wpc EXCEPT ![w] = "range"]
    /\ UNCHANGED << cfg, plan, initErr, configured, phase, orchVars, wait, latency, timerFired,
                    chanVars, wk, werr, cpc, dbInit, dbStop, rateWaits, submitted, seqs, writes,
                    nOk, nFailed, nReads, statLen >>

Worker(w) == WTake(w) \/ WExit(w) \/ WRecv(w) \/ WWriteReturn(w) \/ WSend(w) \/ WLogError(w)

\* ----------------------------------------------------------- collect
\* for t := range latencies { b.latency = append(b.latency, t); b.wait.Done() }
\* (Done on a zero counter panics.)
Collect ==
    /\ Alive
    /\ cpc = "range"
    /\ latencies # << >>
    /\ latency' = Append(latency, Head(latencies))
    /\ latencies' = Tail(latencies)
    /\ IF wait > 0
         THEN /\ wait' = wait - 1
              /\ UNCHANGED pc
         ELSE /\ pc' = "panic"
              /\ UNCHANGED wait
    /\ UNCHANGED << cfg, plan, initErr, configured, phase, i, key, counter, globalCouner, timerFired,
                    keys, keysClosed, gcClosed, gcBuf, latenciesClosed, workerVars, cpc,
                    histVars >>

\* range latencies ends: the queue is closed and empty
CollectExit ==
    /\ Alive
    /\ cpc = "range"
    /\ latencies = << >>
    /\ latenciesClosed
    /\ cpc' = "exit"
    /\ UNCHANGED << cfg, plan, initErr, configured, phase, orchVars, wait, latency, timerFired,
                    chanVars, workerVars, histVars >>

\* ------------------------------------------------------ specification
Orchestrator ==
    \/ LoadStart \/ LoadLoop \/ LoadSend \/ LoadStop \/ LoadWait
    \/ RunStart \/ RunLoop \/ RunAdd \/ RunNext \/ RunSend \/ RunWait \/ RunStop
    \/ Stat \/ Return

Next ==
    \/ Orchestrator
    \/ TimerFire
    \/ Move
    \/ \E w \in Workers : Worker(w)
    \/ Collect
    \/ CollectExit

Spec == Init /\ [][Next]_vars

\* A caller that calls Load alone.
LoadInit == Init /\ plan = "Load"

LoadOrchestrator ==
    LoadStart \/ LoadLoop \/ LoadSend \/ LoadStop \/ LoadWait \/ Stat \/ Return

LoadNext ==
    \/ LoadOrchestrator
    \/ \E w \in Workers : Worker(w)
    \/ Collect
    \/ CollectExit

\* Go schedules every runnable goroutine.
LoadSpec ==
    /\ LoadInit
    /\ [][LoadNext]_vars
    /\ WF_vars(LoadOrchestrator)
    /\ \A w \in Workers : WF_vars(Worker(w))
    /\ WF_vars(Collect \/ CollectExit)

\* ===================================================================
\* Properties
\* ===================================================================
WriteIdxs == { writes[j].idx : j \in 1..Len(writes) }

\* latency samples of successful writes that the collector has recorded
RecordedWrites == Cardinality({ n \in 1..Len(latency) : latency[n] \in WriteIdxs })

\* b.wait.Add(1) calls of this phase: one per submitted key, and the one for the key
\* the orchestrator is about to submit
Added == Len(submitted) + (IF pc \in {"next", "send", "loadSend"} THEN 1 ELSE 0)

\* No goroutine can take a step.
Quiescent == ~ENABLED Next

\* C1: when the orchestrator computes the statistics, every key it submitted has been
\* resolved: recorded successful writes + failed writes + read no-ops = submitted
\* keys, and no worker is inside a Write call.
C1_DrainedBeforeStatistics ==
    pc = "stat" =>
        /\ RecordedWrites + nFailed + nReads = Len(submitted)
        /\ \A w \in Workers : wpc[w] # "inWrite"

\* C2: the barrier is never negative and equals the number of Add(1) calls minus the
\* number of resolved operations, an operation being resolved when its sample was
\* collected or its failure was logged.
C2_BarrierCountsResolutions ==
    Alive =>
        /\ wait >= 0
        /\ wait = Added - (Len(latency) + nLogged)

\* C3: a run in which every operation is a write and every Write returns an error
\* completes: when nothing can move any more, the method has returned, the latency
\* sequence is empty and every submitted key is resolved (as a failure).
C3_AllFailedRunCompletes ==
    (Alive /\ cfg.W = 100 /\ nOk = 0 /\ Quiescent) =>
        /\ pc = "done"
        /\ Len(latency) = 0
        /\ nFailed = Len(submitted)

\* C4: under the count-based cutoff, with no Write failing, Run never blocks forever:
\* when nothing can move any more, Run has returned after submitting exactly N keys,
\* all resolved.
C4_CountRunTerminates ==
    (Alive /\ phase = "Run" /\ cfg.T = 0 /\ nFailed = 0 /\ Quiescent) =>
        /\ pc = "done"
        /\ Len(submitted) = cfg.N
        /\ nOk + nReads = cfg.N

\* C5: every Write call carries the key of one submission and, in Run, the sequence
\* number assigned to that very submission; no two Write calls of a Run share a
\* submission or a sequence number.
C5_WriteGetsItsSequenceNumber ==
    /\ \A j \in 1..Len(writes) :
          /\ writes[j].idx \in 1..Len(submitted)
          /\ writes[j].key = submitted[writes[j].idx]
          /\ phase = "Run" =>
                /\ writes[j].idx <= Len(seqs)
                /\ writes[j].seq = seqs[writes[j].idx]
    /\ phase = "Run" =>
          \A j1, j2 \in 1..Len(writes) :
              j1 # j2 => /\ writes[j1].seq # writes[j2].seq
                         /\ writes[j1].idx # writes[j2].idx

\* Two workers are inside Write at once, the second worker with the earlier key.
C5_Witness ==
    /\ phase = "Run"
    /\ cfg.Concurrency >= 2
    /\ wpc[1] = "inWrite"
    /\ wpc[2] = "inWrite"
    /\ wk[2].idx < wk[1].idx

\* C6: in a Run, the sequence numbers assigned are 0, 1, 2, ... in submission order,
\* one per submitted key.
C6_SequenceNumbersGapFree ==
    phase = "Run" =>
        /\ \A n \in 1..Len(seqs) : seqs[n] = n - 1
        /\ Len(seqs) = Len(submitted)
        /\ globalCouner = Len(seqs) - 1

\* Three keys have been submitted in a Run.
C6_Witness ==
    /\ phase = "Run"
    /\ Len(seqs) >= 3

\* C7: during Load, the Write calls receive sequence numbers that strictly increase
\* with the submission order of their keys (so are pairwise distinct).
C7_LoadSequenceNumbersIncrease ==
    phase = "Load" =>
        \A j1, j2 \in 1..Len(writes) :
            writes[j1].idx < writes[j2].idx => writes[j1].seq < writes[j2].seq

KeyRange == cfg.Min .. (cfg.Min + cfg.K - 1)

\* C8 (in every state of Load): the keys submitted so far are Min, Min+1, ... in
\* increasing order; every Write call is for a submitted key and no key is written
\* twice; once the barrier has released, all K keys are submitted, each was written
\* and K latency samples are recorded.
C8_LoadState ==
    phase = "Load" =>
        /\ Len(submitted) <= cfg.K
        /\ \A n \in 1..Len(submitted) : submitted[n] = cfg.Min + n - 1
        /\ \A j \in 1..Len(writes) : writes[j].key \in { submitted[n] : n \in 1..Len(submitted) }
        /\ \A j1, j2 \in 1..Len(writes) : j1 # j2 => writes[j1].key # writes[j2].key
        /\ pc \in {"stat", "ret", "done"} =>
              /\ { writes[j].key : j \in 1..Len(writes) } = KeyRange
              /\ Len(submitted) = cfg.K
              /\ Len(latency) = cfg.K

\* C8: Load submits Min .. Min+K-1 in increasing order, each once, and calls Write once
\* for each of them and for no other key, whatever W and Throttle were configured;
\* when no Write fails, Load returns, with K latency samples recorded.
C8_LoadWritesEveryKeyOnce ==
    /\ []C8_LoadState
    /\ (<>(nFailed > 0)) \/ <>(pc = "done" /\ Len(latency) = cfg.K)

\* Load has returned after writing two keys from two workers.
C8_Witness ==
    /\ phase = "Load"
    /\ pc = "done"
    /\ cfg.K >= 2
    /\ cfg.Min >= 1
    /\ Len(writes) = cfg.K
    /\ Len(latency) = cfg.K
    /\ wpc[2] = "exit"
    /\ wk[2].idx >= 1

C9_Scenario ==
    /\ phase = "Run"
    /\ plan = "Run"
    /\ cfg.Distribution = "order"
    /\ cfg.Concurrency = 1
    /\ cfg.W = 100
    /\ cfg.T = 0

\* C9: with Distribution = order, Concurrency = 1, W = 1.0, T = 0 and count N on a new
\* Benchmark, the i-th Write call (i = 0, 1, ...) has key Min + (i mod K) and sequence
\* number i; with no Write failing the run ends; and when the statistics are computed
\* there were exactly N Write calls and the latency sequence has length N.
C9_OrderedRun ==
    C9_Scenario =>
        /\ Len(writes) <= cfg.N
        /\ \A j \in 1..Len(writes) :
              writes[j] = [key |-> cfg.Min + ((j - 1) % cfg.K), idx |-> j, seq |-> j - 1]
        /\ (nFailed = 0 /\ Quiescent) => pc = "done"
        /\ pc \in {"stat", "ret", "done"} =>
              /\ Len(writes) = cfg.N
              /\ Len(latency) = cfg.N
        /\ pc \in {"ret", "done"} => statLen = cfg.N

\* The run of three writes over two keys has returned: the counter wrapped.
C9_Witness ==
    /\ C9_Scenario
    /\ pc = "done"
    /\ cfg.K = 2
    /\ cfg.N = 3
    /\ cfg.Min = 1
    /\ statLen = 3
    /\ writes[3].key = 1

\* next() has just returned `key` under order, uniform or conflict.
C10_KeyReturned ==
    /\ phase = "Run"
    /\ pc = "send"
    /\ cfg.Distribution \in {"order", "uniform", "conflict"}

\* C10 as claimed: every key returned by next() under order, uniform and conflict
\* satisfies Min <= key < Min + K.
C10_KeyInRange ==
    C10_KeyReturned => key \in KeyRange

\* C10 as amended: under order and uniform the key is in Min .. Min+K-1; under conflict
\* it is the hot key 0 or in Min .. Min+K-1.
C10_KeyInRangeOrHotKey ==
    C10_KeyReturned =>
        IF cfg.Distribution = "conflict"
          THEN key = 0 \/ key \in KeyRange
          ELSE key \in KeyRange

\* The second call of next() under conflict returned the hot key 0 with Min > 0.
C10_Witness ==
    /\ C10_KeyReturned
    /\ cfg.Distribution = "conflict"
    /\ cfg.Min > 0
    /\ key = 0
    /\ Len(submitted) >= 1

\* C11: in every phase (Load, time-based Run, count-based Run) db.Init() is called
\* exactly once and before any Write, and db.Stop() is called exactly once, after the
\* last key submission and before the orchestrator's final wait on the barrier: when
\* the orchestrator is at that wait, Stop has been called.
C11_InitOnceStopBeforeFinalWait ==
    phase # "none" =>
        /\ dbInit = 1
        /\ dbStop <= 1
        /\ dbStop = 1 => pc \in {"loadWait", "stat", "ret", "done", "panic"}
        /\ pc \in {"stat", "ret", "done"} => dbStop = 1
        /\ pc \in {"loadWait", "wait"} => dbStop = 1

\* C12: when db.Init() returns an error the run is aborted: no key is submitted and
\* Write is never called.
C12_FailedInitAborts ==
    (phase # "none" /\ initErr) =>
        /\ Len(submitted) = 0
        /\ Len(writes) = 0

\* Sends on the sequence-number channel that a worker has received (Run).
Handed == Len(submitted) - (IF pc = "handoff" THEN 1 ELSE 0)

\* C13: under the time-based cutoff, once the timer has fired no step increments the
\* barrier, sends on the key queue or completes a hand-off of a sequence number,
\* wherever the orchestrator was when the timer fired.
C13_NoSubmissionAfterTimer ==
    [][(phase = "Run" /\ timerFired) =>
          /\ Added' = Added
          /\ Len(submitted') = Len(submitted)
          /\ Handed' = Handed]_vars

\* C14: next() returns a key for each of the six names order, uniform, conflict,
\* normal, zipfian and exponential, and for every other name it ends in the fatal
\* error without returning a key.
C14_SixNamesAccepted ==
    LET names == {"order", "uniform", "conflict", "normal", "zipfian", "exponential"} IN
    phase = "Run" =>
        /\ pc = "fatal" => cfg.Distribution \notin names
        /\ (pc = "send" \/ Len(submitted) > 0) => cfg.Distribution \in names

\* C15: under the normal distribution with K >= 1, whatever the draw and whatever Mu
\* is at the moment of the call (the moving mean included), the folding ends and every
\* key next() returns, has returned or can return now is in 0 .. K.
C15_NormalKeyFolded ==
    (phase = "Run" /\ cfg.Distribution = "normal" /\ cfg.K >= 1) =>
        /\ pc = "send" => key \in 0..cfg.K
        /\ \A n \in 1..Len(submitted) : submitted[n] \in 0..cfg.K
        /\ \A o \in NextOutcomes(cfg, counter) : ~o.fatal /\ o.key \in 0..cfg.K

\* The moving mean has moved Mu, and the second call of next() returned K itself.
C15_Witness ==
    /\ phase = "Run"
    /\ cfg.Distribution = "normal"
    /\ cfg.Move
    /\ cfg.Mu # configured.Mu
    /\ cfg.K = 2
    /\ Len(submitted) = 1
    /\ pc = "send"
    /\ key = cfg.K

\* C16: no operation is retried: there are never more Write calls than submitted keys,
\* no two Write calls are for the same submission (so none follows a failed Write of
\* that submission), and no more Write calls have returned than were made.
C16_NoRetry ==
    /\ Len(writes) <= Len(submitted)
    /\ \A j1, j2 \in 1..Len(writes) : j1 # j2 => writes[j1].idx # writes[j2].idx
    /\ nOk + nFailed <= Len(writes)

\* The Write of the first key failed and was logged; the same worker is inside the
\* Write of the second key.
C16_Witness ==
    /\ phase = "Run"
    /\ cfg.Concurrency = 1
    /\ nFailed = 1
    /\ nLogged = 1
    /\ Len(writes) = 2
    /\ wpc[1] = "inWrite"
    /\ wk[1].idx = 2

\* C17: with Distribution = conflict and Conflicts = 100 every key next() returns,
\* has returned or can return now is 0, whatever K and Min, and b.counter is never
\* advanced.
C17_AlwaysHotKey ==
    (phase = "Run" /\ cfg.Distribution = "conflict" /\ cfg.Conflicts = 100) =>
        /\ counter = -1
        /\ pc = "send" => key = 0
        /\ \A n \in 1..Len(submitted) : submitted[n] = 0
        /\ \A o \in NextOutcomes(cfg, counter) : o.key = 0 /\ o.counter = counter

\* Two keys were returned with K = 2 and Min = 1.
C17_Witness ==
    /\ phase = "Run"
    /\ cfg.Distribution = "conflict"
    /\ cfg.Conflicts = 100
    /\ cfg.K = 2
    /\ cfg.Min = 1
    /\ Len(submitted) = 2
    /\ Len(writes) = 2

\* C18: no worker sends on the latency queue after it was closed: once the deferred
\* close has run no worker is about to send a sample, and the process has not
\* panicked.
C18_NoSendOnClosedQueue ==
    /\ pc # "panic"
    /\ latenciesClosed => \A w \in Workers : ~(wpc[w] = "result" /\ ~werr[w])

\* C19: a key processed as a read no-op forwards a latency sample and is not logged as
\* a failure, whatever happened to the worker's previous key: a worker holding the
\* result of a read holds no error, and no more errors are logged than Writes failed.
C19_ReadForwardsSample ==
    /\ \A w \in Workers : (wpc[w] = "result" /\ wk[w].idx \notin WriteIdxs) => ~werr[w]
    /\ nLogged <= nFailed

\* C20: a Run, also one that follows Load on the same Benchmark, works with the write
\* ratio and the throttle configured at construction: b.W and b.Throttle have those
\* values, with a throttle each call of next() waits on the limiter, and with W = 0
\* no Write is called.
C20_RunUsesConfiguredValues ==
    phase = "Run" =>
        /\ cfg.W = configured.W
        /\ cfg.Throttle = configured.Throttle
        /\ (configured.Throttle > 0 /\ pc = "send") => rateWaits = Len(submitted) + 1
        /\ configured.W = 0 => Len(writes) = 0
====
